---- MODULE Spec2Model ----
(***************************************************************************)
(* A model of the web health check engine (index.js): the per-domain      *)
(* streak state machine of checkDomain, the history store (addToHistory,  *)
(* saveDomainHistory, loadDomainHistory), the scheduler (start,           *)
(* runHealthChecks, setInterval) and the 24-hour grid of                  *)
(* generateHistoryPage.  SpecRoundTrip calls the exported saveDomainHistory*)
(* and loadDomainHistory directly, as a caller of the module does.         *)
(*                                                                         *)
(* Time is the value of Date.now(), counted in clock units of 100 ms      *)
(* (Second units per second) since the process was loaded.  An async      *)
(* function is split at its awaits: one action per continuation.          *)
(***************************************************************************)
EXTENDS Integers, Sequences, FiniteSets, TLC

VARIABLES
  config,         \* the config object: domains, slackWebhookUrl, intervals
  healthState,    \* Map domain -> {status, lastCheck, lastError, ...}
  healthHistory,  \* Map domain -> array of {timestamp, status}
  disk,           \* files of config.persistDataDir: file name -> content
  now,            \* Date.now()
  nextCheckTime,  \* the module variable nextCheckTime
  timer,          \* when the setInterval timer fires next (Null before start)
  running,        \* "loaded" (module loaded), "started", "crashed"
  passes,         \* the runHealthChecks calls in flight, oldest first
  slack,          \* every message handed to sendSlackNotification, in order
  probes,         \* per domain: probes whose outcome checkDomain has received
  budget,         \* runHealthChecks calls the model still lets start
  page,           \* the last page computed by generateHistoryPage
  saved,          \* the last saveDomainHistory call made by a caller of the module
  loaded,         \* what the last loadDomainHistory call of such a caller returned
  warned          \* the domains saveDomainHistory has logged a failed save for

vars == <<config, healthState, healthHistory, disk, now, nextCheckTime, timer,
          running, passes, slack, probes, budget, page, saved, loaded, warned>>

-----------------------------------------------------------------------------
(* Bounds of the model *)

\* runHealthChecks calls per behaviour of Spec
MaxRuns == 2
\* runHealthChecks calls per behaviour of SpecStreak
MaxStreakRuns == 12
\* runHealthChecks calls per behaviour of SpecProbe
MaxProbeRuns == 2
\* entries of the stored history SpecGrid starts from
MaxSamples == 2
\* runHealthChecks calls in flight at once
MaxOverlap == 2
\* runHealthChecks calls per behaviour of SpecStore
MaxStoreRuns == 3
\* calls and waits per behaviour of SpecRoundTrip
MaxCalls == 3
\* the minutes an endpoint was probed for before the process started
MaxEntries == 10
\* runHealthChecks calls per behaviour of SpecOverlap
MaxOverlapRuns == 5

\* the passes of a run whose pages are requested
MaxReadRuns == 2

-----------------------------------------------------------------------------
(* Values *)

Null == <<>>
Some(v) == <<v>>

Range(s) == {s[i] : i \in DOMAIN s}

\* clock units per second: Date.now() at a resolution of 100 ms
Second == 10
\* a time span of the model clock in milliseconds, as the code prints it
ToMs(t) == t * (1000 \div Second)

Minute == 60 * Second

\* generateHistoryPage: the minutes of the grid
minutesInDay == 24 * 60

DefaultCheckIntervalMinutes == 1
DefaultTimeoutSeconds == 10

\* endpoint identities, as sequences of characters
DomainA == <<"h", ":", "/", "a">>
DomainB == <<"h", ":", "/", "b">>

\* two endpoints of one host whose paths differ in a character that is not
\* kept in file names: https://a/p/q and https://a/p_q
DomainP == <<"h", ":", "/", "a", "/", "p", "/", "q">>
DomainQ == <<"h", ":", "/", "a", "/", "p", "_", "q">>

PhpMarker == "A PHP Error was encountered"

-----------------------------------------------------------------------------
(* Text: a message is the sequence of the fragments a template literal joins *)

HttpError(statusCode) == <<"HTTP ", ToString(statusCode)>>

SlowError(responseTime, cfg) ==
  <<"Response time ", ToString(ToMs(responseTime)), "ms exceeds ",
    ToString(cfg.timeoutSeconds * 1000), "ms">>

PhpError == <<"PHP Error detected in page content">>

\* String.prototype.includes on a body given as a sequence of pieces of text
Includes(body, piece) == \E k \in DOMAIN body : body[k] = piece

-----------------------------------------------------------------------------
(* checkDomain: the classification of one probe outcome (the throws of the
   try block, in their order).  Null: no throw; Some(m): an Error with
   message m reaches the catch block. *)

\* the rule as it would be if only 200 were accepted
StatusNot200(statusCode) == statusCode # 200

StatusRejected(statusCode) == statusCode < 200 \/ statusCode >= 400

TooSlow(responseTime, cfg) == responseTime > cfg.timeoutSeconds * Second

\* the rules with the response time checked before the status
ClassifySlowFirst(response, responseTime, cfg) ==
  IF response.error # Null THEN response.error
  ELSE IF TooSlow(responseTime, cfg)
    THEN Some(SlowError(responseTime, cfg))
  ELSE IF StatusRejected(response.statusCode)
    THEN Some(HttpError(response.statusCode))
  ELSE IF Includes(response.body, PhpMarker) THEN Some(PhpError)
  ELSE Null

Classify(response, responseTime, cfg) ==
  IF response.error # Null THEN response.error
  ELSE IF StatusRejected(response.statusCode)
    THEN Some(HttpError(response.statusCode))
  ELSE IF TooSlow(responseTime, cfg)
    THEN Some(SlowError(responseTime, cfg))
  ELSE IF Includes(response.body, PhpMarker) THEN Some(PhpError)
  ELSE Null

(* checkDomain: the assignments of the success path and of the catch block *)

HealthyUpdate(state, t, responseTime) ==
  [state EXCEPT !.status = "healthy",
                !.lastCheck = Some(t),
                !.lastError = Null,
                !.consecutiveErrors = 0,
                !.consecutiveSuccesses = @ + 1,
                !.responseTime = Some(responseTime)]

\* the catch block as it would be without consecutiveSuccesses = 0
UnhealthyUpdateKeepingSuccesses(state, t, message, responseTime) ==
  [state EXCEPT !.status = "unhealthy",
                !.lastCheck = Some(t),
                !.lastError = Some(message),
                !.consecutiveErrors = @ + 1,
                !.responseTime = Some(responseTime)]

UnhealthyUpdate(state, t, message, responseTime) ==
  [state EXCEPT !.status = "unhealthy",
                !.lastCheck = Some(t),
                !.lastError = Some(message),
                !.consecutiveErrors = @ + 1,
                !.consecutiveSuccesses = 0,
                !.responseTime = Some(responseTime)]

(* checkDomain: the three notification conditions *)

\* the conditions as they would be with >= for ===
RecoveredDueFrom10(state) == state.consecutiveSuccesses >= 10

SustainedDueFrom5(state) == state.consecutiveErrors >= 5

\* the condition as it would be one success early
RecoveredDueOnNinth(state) == state.consecutiveSuccesses = 9

RecoveredDue(state) == state.consecutiveSuccesses = 10

AlertDue(state) == state.consecutiveErrors = 1

SustainedDue(state) == state.consecutiveErrors = 5

RecoveredMsg(domain) == [kind |-> "Recovered", domain |-> domain, text |-> <<>>]

AlertMsg(domain, message) == [kind |-> "Alert", domain |-> domain, text |-> message]

SustainedMsg(domain, message) ==
  [kind |-> "Sustained", domain |-> domain, text |-> message]

StartupMsg == [kind |-> "Startup", domain |-> <<>>, text |-> <<>>]

\* sendSlackNotification without a webhook URL logs and returns; with one it
\* posts and its promise stays pending until the sink answers
SlackConfigured(cfg) == cfg.slackWebhookUrl # Null

-----------------------------------------------------------------------------
(* The history store *)

\* the window as it would be with the 24 hours of the first version
RetentionWindowOfOneDay == 24 * 60 * 60 * Second

RetentionWindow == 30 * 24 * 60 * 60 * Second

\* addToHistory as it would be without the filter
addToHistoryKeepingAll(history, status, t) ==
  Append(history, [timestamp |-> t, status |-> status])

\* addToHistory as it would be with unshift for push
addToHistoryUnshift(history, status, t) ==
  LET pushed == <<[timestamp |-> t, status |-> status]>> \o history
      oneMonthAgo == t - 30 * 24 * 60 * 60 * Second
      Recent(entry) == entry.timestamp >= oneMonthAgo
  IN SelectSeq(pushed, Recent)

\* addToHistory: push, then keep the entries of the last month
addToHistory(history, status, t) ==
  LET pushed == Append(history, [timestamp |-> t, status |-> status])
      oneMonthAgo == t - RetentionWindow
      Recent(entry) == entry.timestamp >= oneMonthAgo
  IN SelectSeq(pushed, Recent)

\* the characters of [a-zA-Z0-9.-] that occur in the domains of the model
SafeChars == {"a", "b", "h", "p", "q", "z", "0", "9", ".", "-"}

\* domain.replace(/[^a-zA-Z0-9.-]/g, '_') + '.json'
getDomainFileName(domain) ==
  [k \in 1..Len(domain) |-> IF domain[k] \in SafeChars THEN domain[k] ELSE "_"]
    \o <<".json">>

\* What a file of the data directory holds: text that is an array in JSON
\* (items), text that is another JSON value (null, an object, a number), text
\* that is not JSON, or nothing that can be read (readFileSync throws)
ArrayFile(items) == [kind |-> "array", items |-> items]

ValueFile == [kind |-> "value", items |-> <<>>]

TextFile == [kind |-> "text", items |-> <<>>]

UnreadableFile == [kind |-> "unreadable", items |-> <<>>]

\* an item of an array in JSON: an object with the timestamp and the status it
\* has (Null: the property is missing or falsy, or the timestamp is not a
\* date), or null
Item(timestamp, status) == [type |-> "object", timestamp |-> timestamp, status |-> status]

NullItem == [type |-> "null", timestamp |-> Null, status |-> Null]

\* JSON.stringify(history, null, 2)
Stringify(history) ==
  ArrayFile([k \in DOMAIN history |->
               Item(Some(history[k].timestamp), Some(history[k].status))])

\* the save as it would be with the newest entry added to the file, not the
\* whole history written
saveDomainHistoryAppending(files, domain, history, writable) ==
  LET fileName == getDomainFileName(domain)
      before == IF fileName \in DOMAIN files /\ files[fileName].kind = "array"
                  THEN files[fileName].items ELSE <<>>
      newest == IF history = <<>>
                  THEN <<>>
                  ELSE <<Item(Some(history[Len(history)].timestamp),
                              Some(history[Len(history)].status))>>
  IN IF writable THEN (fileName :> ArrayFile(before \o newest)) @@ files ELSE files

\* saveDomainHistory: write the file; a failing ensureDataDir or write is
\* logged and swallowed
saveDomainHistory(files, domain, history, writable) ==
  IF writable
    THEN (getDomainFileName(domain) :> Stringify(history)) @@ files
    ELSE files

\* loadDomainHistory as it would be with a filter that skips null items
loadDomainHistorySkippingNull(files, domain, t) ==
  LET fileName == getDomainFileName(domain)
      oneMonthAgo == t - RetentionWindow
      Valid(item) == /\ item.type = "object"
                     /\ item.timestamp # Null
                     /\ item.status # Null
                     /\ item.timestamp[1] >= oneMonthAgo
      kept == IF fileName \in DOMAIN files /\ files[fileName].kind = "array"
                THEN SelectSeq(files[fileName].items, Valid)
                ELSE <<>>
  IN [k \in DOMAIN kept |->
        [timestamp |-> kept[k].timestamp[1], status |-> kept[k].status[1]]]

\* loadDomainHistory: the items of the file that have a timestamp of the last
\* month and a status; [] when there is no file and when anything throws:
\* readFileSync, JSON.parse, history.filter of a value that is not an array,
\* entry.timestamp of a null item
loadDomainHistory(files, domain, t) ==
  LET fileName == getDomainFileName(domain)
      oneMonthAgo == t - RetentionWindow
      Valid(item) == /\ item.timestamp # Null
                     /\ item.status # Null
                     /\ item.timestamp[1] >= oneMonthAgo
      Throws(content) ==
        \/ content.kind # "array"
        \/ \E k \in DOMAIN content.items : content.items[k].type = "null"
      kept == IF fileName \in DOMAIN files /\ ~Throws(files[fileName])
                THEN SelectSeq(files[fileName].items, Valid)
                ELSE <<>>
  IN [k \in DOMAIN kept |->
        [timestamp |-> kept[k].timestamp[1], status |-> kept[k].status[1]]]

\* loadAllPersistedData: a non-empty loaded history replaces the empty one
loadAllPersistedData(files, cfg, histories, t) ==
  [d \in DOMAIN histories |->
     IF d \in Range(cfg.domains) /\ Len(loadDomainHistory(files, d, t)) > 0
       THEN loadDomainHistory(files, d, t)
       ELSE histories[d]]

\* the catch block of saveDomainHistory: console.warn when the write fails
Warned(domain, writable) == IF writable THEN warned ELSE warned \cup {domain}

-----------------------------------------------------------------------------
(* Inputs of the environment *)

\* what makeHttpRequest resolves with (error = Null) or rejects with
Response(statusCode, body) == [error |-> Null, statusCode |-> statusCode, body |-> body]

TransportError(message) == [error |-> Some(<<message>>), statusCode |-> 0, body |-> <<>>]

StatusCodes == {199, 200, 201, 302, 399, 400, 404, 500}

Bodies == {<<"Healthy page">>, <<"<body>", PhpMarker, " in this page">>}

Responses ==
  {Response(c, b) : c \in StatusCodes, b \in Bodies}
    \cup {TransportError("connect ECONNREFUSED"), TransportError("Request timeout")}

\* req.on('timeout'): the socket has been idle for timeoutSeconds + 5 seconds
TimedOut(response, responseTime, cfg) ==
  response = TransportError("Request timeout")
    => responseTime >= (cfg.timeoutSeconds + 5) * Second

\* how long an awaited request may take, in clock units
RequestDelays == {1, 10 * Second, 10 * Second + 1, 15 * Second}

SinkDelays == {1}

\* the probes of SpecStreak: a healthy page or a 500, answered at once
StreakResponses == {Response(200, <<"Healthy page">>), Response(500, <<"Healthy page">>)}

StreakDelays == {1}

-----------------------------------------------------------------------------
(* The state after the module is loaded (lines 8-32 and 122 of index.js) *)

InitialState ==
  [status |-> "unknown", lastCheck |-> Null, lastError |-> Null,
   consecutiveErrors |-> 0, consecutiveSuccesses |-> 0, responseTime |-> Null]

Config(domains, webhook) ==
  [domains |-> domains, slackWebhookUrl |-> webhook,
   checkIntervalMinutes |-> DefaultCheckIntervalMinutes,
   timeoutSeconds |-> DefaultTimeoutSeconds]

Interval(cfg) == cfg.checkIntervalMinutes * 60 * Second

Loaded(cfg) ==
  /\ config = cfg
  /\ healthState = [d \in Range(cfg.domains) |-> InitialState]
  /\ healthHistory = [d \in Range(cfg.domains) |-> <<>>]
  /\ now = 0
  /\ nextCheckTime = Interval(cfg)
  /\ timer = Null
  /\ running = "loaded"
  /\ passes = <<>>
  /\ slack = <<>>
  /\ probes = [d \in Range(cfg.domains) |-> 0]
  /\ page = Null
  /\ saved = Null
  /\ loaded = Null
  /\ warned = {}

Webhooks == {Null, Some("https://hooks.slack.com/services/T")}

Init ==
  /\ \E webhook \in Webhooks : Loaded(Config(<<DomainA, DomainB>>, webhook))
  /\ disk = <<>>
  /\ budget = MaxRuns

InitProbe ==
  /\ \E webhook \in Webhooks : Loaded(Config(<<DomainA>>, webhook))
  /\ disk = <<>>
  /\ budget = MaxProbeRuns

\* the times of stored samples, relative to the start of the process: around
\* the start of the first page's window, inside it, around its end, and later
SampleTimes ==
  {- minutesInDay * Minute - Minute,
   - minutesInDay * Minute,
   - minutesInDay * Minute + Minute \div 2 - 1,
   - minutesInDay * Minute + Minute \div 2,
   - Minute - Minute \div 2,
   - Minute \div 2,
   0,
   2 * Minute}

Samples == [timestamp : SampleTimes, status : {"healthy", "unhealthy"}]

\* the histories a file can hold: at most MaxSamples entries, in time order
StoredHistories ==
  UNION {{h \in [1..n -> Samples] :
            \A k \in 1..(n - 1) : h[k].timestamp <= h[k + 1].timestamp}
         : n \in 0..MaxSamples}

\* a process loaded beside the file an earlier run has left
InitGrid ==
  /\ Loaded(Config(<<DomainA>>, Null))
  /\ \E h \in StoredHistories : disk = saveDomainHistory(<<>>, DomainA, h, TRUE)
  /\ budget = 1

\* the offsets of a sample within its minute: on the minute, and half a
\* second before the next one
OffsetsInMinute == {0, 59 * Second + Second \div 2}

Patterns == {"healthy", "unhealthy", "alternating"}

StatusOf(pattern, i) ==
  IF pattern = "alternating"
    THEN IF i % 2 = 0 THEN "healthy" ELSE "unhealthy"
    ELSE pattern

\* the history of an endpoint probed once a minute for the n minutes before
\* the start of this process: entries at - i minutes + offset, i = n..1
PerMinuteHistory(n, offset, pattern) ==
  [k \in 1..n |-> [timestamp |-> - (n + 1 - k) * Minute + offset,
                   status |-> StatusOf(pattern, n + 1 - k)]]

\* minutes counted from the start of the first page's window: its first
\* slots, its middle, its last slots
SpreadMinutes == {0, 1, minutesInDay \div 2, minutesInDay - 2, minutesInDay - 1}

\* histories of up to three samples on whole minutes spread over the window
SpreadHistories ==
  UNION {{[k \in 1..n |-> [timestamp |-> (m[k] - minutesInDay) * Minute,
                           status |-> StatusOf(pattern, k)]]
            : m \in {f \in [1..n -> SpreadMinutes] :
                       \A k \in 1..(n - 1) : f[k] < f[k + 1]},
              pattern \in Patterns}
         : n \in 1..3}

PerMinuteHistories ==
  {PerMinuteHistory(n, offset, pattern) :
     n \in 0..MaxEntries, offset \in OffsetsInMinute, pattern \in Patterns}

\* a process loaded beside the file of an endpoint probed once a minute, or
\* a few times over the last day
InitPerMinute ==
  /\ Loaded(Config(<<DomainA>>, Null))
  /\ \E h \in PerMinuteHistories \cup SpreadHistories :
       disk = saveDomainHistory(<<>>, DomainA, h, TRUE)
  /\ budget = 1

\* the module loaded by a caller that saves a history for one of two
\* endpoints into an empty data directory and then loads all of them
InitLoad ==
  /\ \E domains \in {<<DomainA, DomainB>>, <<DomainP, DomainQ>>} :
       Loaded(Config(domains, Null))
  /\ disk = <<>>
  /\ budget = 2

\* one endpoint, and a configuration that has been given the property
\* userAgentEnabled, as the test of the User-Agent header sets it
InitUserAgent ==
  /\ \E webhook \in Webhooks, enabled \in BOOLEAN :
       Loaded([userAgentEnabled |-> enabled] @@ Config(<<DomainA>>, webhook))
  /\ disk = <<>>
  /\ budget = MaxProbeRuns

\* two endpoints, with file names that differ or with the same file name
InitShared ==
  /\ \E domains \in {<<DomainA, DomainB>>, <<DomainP, DomainQ>>},
        webhook \in Webhooks :
       Loaded(Config(domains, webhook))
  /\ disk = <<>>
  /\ budget = MaxRuns

\* one endpoint, enough passes for a streak of five failures
InitOverlap ==
  /\ \E webhook \in Webhooks : Loaded(Config(<<DomainA>>, webhook))
  /\ disk = <<>>
  /\ budget = MaxOverlapRuns

InitStreak ==
  /\ \E webhook \in Webhooks : Loaded(Config(<<DomainA>>, webhook))
  /\ disk = <<>>
  /\ budget = MaxStreakRuns

\* the times of the samples earlier runs have left in a file, relative to the
\* start of this process: around the start of the retention window and inside
RetainedTimes == {- RetentionWindow - 1, - RetentionWindow, - RetentionWindow + 1, - 1}

\* the histories an earlier run can have saved: in time order
EarlierHistories ==
  UNION {{h \in [1..n -> [timestamp : RetainedTimes, status : {"healthy", "unhealthy"}]] :
            \A k \in 1..(n - 1) : h[k].timestamp <= h[k + 1].timestamp}
         : n \in 0..MaxSamples}

\* the data directory as earlier runs can have left it: no file, a file saved
\* by addToHistory, a file cut short, a file that cannot be read
EarlierDisks ==
  {<<>>}
    \cup {saveDomainHistory(<<>>, DomainA, h, TRUE) : h \in EarlierHistories}
    \cup {getDomainFileName(DomainA) :> content : content \in {TextFile, UnreadableFile}}

InitStore ==
  /\ Loaded(Config(<<DomainA>>, Null))
  /\ disk \in EarlierDisks
  /\ budget = MaxStoreRuns

\* the histories a caller can pass to saveDomainHistory: entries before, at
\* and after the start of the retention window and ahead of the clock, in
\* any order
AnyTimes == {- RetentionWindow - 1, - RetentionWindow, - RetentionWindow + 1, 2}

AnyHistories ==
  UNION {[1..n -> [timestamp : AnyTimes, status : {"healthy", "unhealthy"}]]
         : n \in 0..MaxSamples}

\* files that are not a history: text that is not JSON, JSON that is not an
\* array, a file that cannot be read, arrays with a null, with objects that
\* lack a property, and with such items beside an entry
BrokenFiles ==
  LET entry == Item(Some(-1), Some("healthy"))
  IN {TextFile, ValueFile, UnreadableFile,
      ArrayFile(<<NullItem>>),
      ArrayFile(<<entry, NullItem>>),
      ArrayFile(<<Item(Null, Some("healthy"))>>),
      ArrayFile(<<Item(Some(-1), Null)>>),
      ArrayFile(<<Item(Null, Null), entry>>)}

\* the module loaded by a caller of its exported functions, beside a data
\* directory without the endpoint's file or with a broken one
InitRoundTrip ==
  /\ Loaded(Config(<<DomainA>>, Null))
  /\ disk \in {<<>>} \cup {getDomainFileName(DomainA) :> content : content \in BrokenFiles}
  /\ budget = MaxCalls

-----------------------------------------------------------------------------
(* runHealthChecks and checkDomain *)

\* options.headers of makeHttpRequest: the header lines the request is sent
\* with, whatever the configuration holds
RequestHeaders(cfg) == {<<"User-Agent", "WebHealthCheck/1.0">>}

\* a runHealthChecks call at the await of checkDomain(config.domains[idx]);
\* pc names the await checkDomain is suspended at, error is the message of
\* the Error its catch block holds
Call(idx, pc, startTime, error) ==
  [idx |-> idx, pc |-> pc, startTime |-> startTime, error |-> error,
   headers |-> RequestHeaders(config)]

\* checkDomain up to its first await: startTime is taken, the request is sent
BeginCheck(idx, t) == Call(idx, "request", t, Null)

RemoveAt(s, i) == SubSeq(s, 1, i - 1) \o SubSeq(s, i + 1, Len(s))

\* the loop of runHealthChecks after checkDomain returned: the next domain,
\* or nextCheckTime after the last one
Returned(i, t) ==
  IF passes[i].idx < Len(config.domains)
    THEN /\ passes' = [passes EXCEPT ![i] = BeginCheck(passes[i].idx + 1, t)]
         /\ UNCHANGED <<nextCheckTime, running, timer>>
    ELSE /\ passes' = RemoveAt(passes, i)
         /\ nextCheckTime' = t + Interval(config)
         /\ UNCHANGED <<running, timer>>

Suspended(i, pc, error) ==
  /\ passes' = [passes EXCEPT ![i].pc = pc, ![i].error = error]
  /\ UNCHANGED <<nextCheckTime, running, timer>>

\* checkDomain rejected: runHealthChecks rejects and nobody handles it. Node
\* either warns and goes on or ends the process (the default since Node 15)
Thrown(i, unhandled) ==
  /\ UNCHANGED nextCheckTime
  /\ IF unhandled = "crash"
       THEN passes' = <<>> /\ running' = "crashed" /\ timer' = Null
       ELSE passes' = RemoveAt(passes, i) /\ UNCHANGED <<running, timer>>

UnhandledRejections == {"crash", "warn"}

\* time passes while the event loop waits; the interval timer fires on time.
\* How long a request stays pending is the server's choice: the timeout option
\* of http.request bounds the idle time of the socket only, and the post to
\* the webhook sets no timeout, so a call can stay suspended across ticks
Elapse(delay) ==
  /\ now + delay <= timer[1]
  /\ now' = now + delay

\* the domain a call is checking
DomainOf(call) == config.domains[call.idx]

\* start() as it would be with the state of an endpoint taken up from the
\* last entry of its loaded history
StartRestoringStreak ==
  LET histories == loadAllPersistedData(disk, config, healthHistory, now)
      restored(history) ==
        IF history = <<>>
          THEN InitialState
          ELSE LET last == history[Len(history)]
               IN [InitialState EXCEPT
                     !.status = last.status,
                     !.lastCheck = Some(last.timestamp),
                     !.consecutiveErrors = IF last.status = "unhealthy" THEN 1 ELSE 0,
                     !.consecutiveSuccesses = IF last.status = "healthy" THEN 1 ELSE 0]
  IN /\ running = "loaded"
     /\ budget > 0
     /\ healthHistory' = histories
     /\ healthState' = [d \in DOMAIN healthState |-> restored(histories[d])]
     /\ slack' = Append(slack, StartupMsg)
     /\ passes' = Append(passes, BeginCheck(1, now))
     /\ timer' = Some(now + Interval(config))
     /\ running' = "started"
     /\ budget' = budget - 1
     /\ UNCHANGED <<config, disk, now, nextCheckTime, probes, page, saved, loaded, warned>>

\* start(): load the histories, announce the start, run the first pass and
\* set the interval timer
Start ==
  /\ running = "loaded"
  /\ budget > 0
  /\ healthHistory' = loadAllPersistedData(disk, config, healthHistory, now)
  /\ slack' = Append(slack, StartupMsg)
  /\ passes' = Append(passes, BeginCheck(1, now))
  /\ timer' = Some(now + Interval(config))
  /\ running' = "started"
  /\ budget' = budget - 1
  /\ UNCHANGED <<config, healthState, disk, now, nextCheckTime, probes, page, saved, loaded, warned>>

\* the setInterval callback: runHealthChecks starts, whatever is in flight
Tick ==
  /\ running = "started"
  /\ budget > 0
  /\ Len(passes) < MaxOverlap
  /\ now' = timer[1]
  /\ timer' = Some(timer[1] + Interval(config))
  /\ passes' = Append(passes, BeginCheck(1, timer[1]))
  /\ budget' = budget - 1
  /\ UNCHANGED <<config, healthState, healthHistory, disk, nextCheckTime,
                 running, slack, probes, page, saved, loaded, warned>>

\* the catch block as it would be with addToHistory called after the awaits
\* of the notifications
CatchAppendingLast(i, t, message, writable) ==
  LET domain == DomainOf(passes[i])
      state == UnhealthyUpdate(healthState[domain], t, message,
                               t - passes[i].startTime)
      awaits == SlackConfigured(config) /\ (AlertDue(state) \/ SustainedDue(state))
      history == IF awaits
                   THEN healthHistory[domain]
                   ELSE addToHistory(healthHistory[domain], "unhealthy", t)
      alerted == IF AlertDue(state)
                   THEN Append(slack, AlertMsg(domain, message)) ELSE slack
  IN /\ healthState' = [healthState EXCEPT ![domain] = state]
     /\ healthHistory' = [healthHistory EXCEPT ![domain] = history]
     /\ disk' = saveDomainHistory(disk, domain, history, writable /\ ~awaits)
     /\ warned' = Warned(domain, writable \/ awaits)
     /\ IF AlertDue(state) /\ SlackConfigured(config)
          THEN slack' = alerted /\ Suspended(i, "alert", message)
          ELSE IF SustainedDue(state)
            THEN /\ slack' = Append(alerted, SustainedMsg(domain, message))
                 /\ IF SlackConfigured(config)
                      THEN Suspended(i, "sustained", message)
                      ELSE Returned(i, t)
            ELSE slack' = alerted /\ Returned(i, t)

\* the catch block of checkDomain, entered at time t with an Error(message)
Catch(i, t, message, writable) ==
  LET domain == DomainOf(passes[i])
      state == UnhealthyUpdate(healthState[domain], t, message,
                               t - passes[i].startTime)
      history == addToHistory(healthHistory[domain], "unhealthy", t)
      alerted == IF AlertDue(state)
                   THEN Append(slack, AlertMsg(domain, message)) ELSE slack
  IN /\ healthState' = [healthState EXCEPT ![domain] = state]
     /\ healthHistory' = [healthHistory EXCEPT ![domain] = history]
     /\ disk' = saveDomainHistory(disk, domain, history, writable)
     /\ warned' = Warned(domain, writable)
     /\ IF AlertDue(state) /\ SlackConfigured(config)
          THEN slack' = alerted /\ Suspended(i, "alert", message)
          ELSE IF SustainedDue(state)
            THEN /\ slack' = Append(alerted, SustainedMsg(domain, message))
                 /\ IF SlackConfigured(config)
                      THEN Suspended(i, "sustained", message)
                      ELSE Returned(i, t)
            ELSE slack' = alerted /\ Returned(i, t)

\* the success path as it would be with the history set after a save that
\* throws
SuccessSavingFirst(i, t, writable) ==
  LET domain == DomainOf(passes[i])
      state == HealthyUpdate(healthState[domain], t, t - passes[i].startTime)
      history == IF writable
                   THEN addToHistory(healthHistory[domain], "healthy", t)
                   ELSE healthHistory[domain]
  IN /\ healthState' = [healthState EXCEPT ![domain] = state]
     /\ healthHistory' = [healthHistory EXCEPT ![domain] = history]
     /\ disk' = saveDomainHistory(disk, domain, history, writable)
     /\ warned' = Warned(domain, writable)
     /\ IF RecoveredDue(state)
          THEN /\ slack' = Append(slack, RecoveredMsg(domain))
               /\ IF SlackConfigured(config)
                    THEN Suspended(i, "recovered", Null)
                    ELSE Returned(i, t)
          ELSE UNCHANGED slack /\ Returned(i, t)

\* the success path as it would be with addToHistory called after the await
\* of the notification
SuccessAppendingLast(i, t, writable) ==
  LET domain == DomainOf(passes[i])
      state == HealthyUpdate(healthState[domain], t, t - passes[i].startTime)
      awaits == RecoveredDue(state) /\ SlackConfigured(config)
      history == IF awaits
                   THEN healthHistory[domain]
                   ELSE addToHistory(healthHistory[domain], "healthy", t)
  IN /\ healthState' = [healthState EXCEPT ![domain] = state]
     /\ healthHistory' = [healthHistory EXCEPT ![domain] = history]
     /\ disk' = IF awaits THEN disk ELSE saveDomainHistory(disk, domain, history, writable)
     /\ warned' = Warned(domain, writable \/ awaits)
     /\ IF RecoveredDue(state)
          THEN /\ slack' = Append(slack, RecoveredMsg(domain))
               /\ IF SlackConfigured(config)
                    THEN Suspended(i, "recovered", Null)
                    ELSE Returned(i, t)
          ELSE UNCHANGED slack /\ Returned(i, t)

\* the success path of checkDomain, taken at time t
Success(i, t, writable) ==
  LET domain == DomainOf(passes[i])
      state == HealthyUpdate(healthState[domain], t, t - passes[i].startTime)
      history == addToHistory(healthHistory[domain], "healthy", t)
  IN /\ healthState' = [healthState EXCEPT ![domain] = state]
     /\ healthHistory' = [healthHistory EXCEPT ![domain] = history]
     /\ disk' = saveDomainHistory(disk, domain, history, writable)
     /\ warned' = Warned(domain, writable)
     /\ IF RecoveredDue(state)
          THEN /\ slack' = Append(slack, RecoveredMsg(domain))
               /\ IF SlackConfigured(config)
                    THEN Suspended(i, "recovered", Null)
                    ELSE Returned(i, t)
          ELSE UNCHANGED slack /\ Returned(i, t)

\* await makeHttpRequest(domain) settles: the rest of checkDomain up to its
\* next await or its return
RequestDone(i, response, delay, writable) ==
  /\ running = "started"
  /\ i \in DOMAIN passes
  /\ passes[i].pc = "request"
  /\ Elapse(delay)
  /\ LET t == now + delay
         responseTime == t - passes[i].startTime
         thrown == Classify(response, responseTime, config)
     IN /\ TimedOut(response, responseTime, config)
        /\ probes' = [probes EXCEPT ![DomainOf(passes[i])] = @ + 1]
        /\ IF thrown = Null
             THEN Success(i, t, writable)
             ELSE Catch(i, t, thrown[1], writable)
  /\ UNCHANGED <<config, budget, page, saved, loaded>>

\* the message of the Error a failed post to the webhook rejects with
SinkError == <<"socket hang up">>

\* await sendSlackNotification(...) resolves: the sink answered
SlackResolved(i, delay) ==
  /\ running = "started"
  /\ i \in DOMAIN passes
  /\ passes[i].pc \in {"recovered", "alert", "sustained"}
  /\ Elapse(delay)
  /\ LET t == now + delay
         domain == DomainOf(passes[i])
     IN IF passes[i].pc = "alert" /\ SustainedDue(healthState[domain])
          THEN /\ slack' = Append(slack, SustainedMsg(domain, passes[i].error))
               /\ Suspended(i, "sustained", passes[i].error)
          ELSE UNCHANGED slack /\ Returned(i, t)
  /\ UNCHANGED <<config, healthState, healthHistory, disk, probes, budget, page, saved, loaded, warned>>

\* await sendSlackNotification(...) rejects: inside the try block the catch
\* block runs, inside the catch block checkDomain itself rejects
SlackRejected(i, delay, writable, unhandled) ==
  /\ running = "started"
  /\ i \in DOMAIN passes
  /\ passes[i].pc \in {"recovered", "alert", "sustained"}
  /\ Elapse(delay)
  /\ IF passes[i].pc = "recovered"
       THEN Catch(i, now + delay, SinkError, writable)
       ELSE /\ Thrown(i, unhandled)
            /\ UNCHANGED <<healthState, healthHistory, disk, slack, warned>>
  /\ UNCHANGED <<config, probes, budget, page, saved, loaded>>

\* the SIGTERM and SIGINT handlers: server.close, and process.exit(0) in its
\* callback. The process ends between two steps of the event loop, whatever
\* is in flight: the calls suspended at an await are never resumed
Shutdown ==
  /\ running = "started"
  /\ running' = "stopped"
  /\ UNCHANGED <<config, healthState, healthHistory, disk, now, nextCheckTime,
                 timer, passes, slack, probes, budget, page, saved, loaded, warned>>

-----------------------------------------------------------------------------
(* generateHistoryPage: the 24-hour grid *)

\* Math.round(a / b) for an integer a and b > 0: the nearest integer, a half
\* rounds up
RoundDiv(a, b) == (2 * a + b) \div (2 * b)

Min(a, b) == IF a < b THEN a ELSE b

Max(a, b) == IF a > b THEN a ELSE b

\* the clamp as it would be without Math.min(minutesInDay - 1, ...)
ClampBelow(rounded) == Max(0, rounded)

\* the clamp as it would be without Math.max(0, ...)
ClampAbove(rounded) == Min(minutesInDay - 1, rounded)

\* Math.max(0, Math.min(minutesInDay - 1, Math.round(rawMinutes)))
Clamp(rounded) == Max(0, Min(minutesInDay - 1, rounded))

\* the minute as it would be with the window starting one slot late
minutesFromSecondSlot(timestamp, t) ==
  Clamp(RoundDiv(timestamp - (t - (minutesInDay - 1) * Minute), Minute))

\* the minute of the grid an entry is written to when the page is made at t
minutesFromStart(timestamp, t) ==
  Clamp(RoundDiv(timestamp - (t - minutesInDay * Minute), Minute))

\* the grid as it would be with a slot written once only: the first entry
\* of a minute stays
RECURSIVE FillGridKeepingFirst(_, _, _)
FillGridKeepingFirst(grid, history, t) ==
  IF history = <<>>
    THEN grid
    ELSE LET entry == Head(history)
             minute == minutesFromStart(entry.timestamp, t)
         IN FillGridKeepingFirst(IF minute >= 0 /\ minute < minutesInDay
                                      /\ grid[minute] = "unknown"
                                   THEN [grid EXCEPT ![minute] = entry.status]
                                   ELSE grid,
                                 Tail(history), t)

\* history.forEach: the entries written to the grid in order, a later entry
\* overwrites an earlier one of the same minute
RECURSIVE FillGrid(_, _, _)
FillGrid(grid, history, t) ==
  IF history = <<>>
    THEN grid
    ELSE LET entry == Head(history)
             minute == minutesFromStart(entry.timestamp, t)
         IN FillGrid(IF minute >= 0 /\ minute < minutesInDay
                       THEN [grid EXCEPT ![minute] = entry.status]
                       ELSE grid,
                     Tail(history), t)

\* the page made at t: the grid, with the history it was made from and the
\* minute computed for each of its entries. The stat cards of the page are
\* computed from this grid and this history
generateHistoryPage(domain, history, t) ==
  [code |-> 200,
   domain |-> domain,
   at |-> t,
   history |-> history,
   grid |-> FillGrid([m \in 0..(minutesInDay - 1) |-> "unknown"], history, t),
   minutes |-> [k \in DOMAIN history |-> minutesFromStart(history[k].timestamp, t)]]

\* grid.filter(m => m.status === status).length
Slots(grid, status) == Cardinality({m \in DOMAIN grid : grid[m] = status})

\* the uptime as it would be with the percentage cut, not rounded
UptimeCut(grid) == (Slots(grid, "healthy") * 100) \div Cardinality(DOMAIN grid)

\* the stat cards of the page: Uptime (24h), Minutes Down, Total Checks and
\* Last Check
Uptime(grid) == RoundDiv(Slots(grid, "healthy") * 100, Cardinality(DOMAIN grid))

MinutesDown(grid) == Slots(grid, "unhealthy")

TotalChecks(history) == Len(history)

LastCheck(history) ==
  IF Len(history) > 0 THEN Some(history[Len(history)].timestamp) ELSE Null

NotFound(domain, t) ==
  [code |-> 404, domain |-> domain, at |-> t, history |-> <<>>, grid |-> <<>>,
   minutes |-> <<>>]

\* the request handler of the server for /history/<domain>
HistoryRequest(domain) ==
  /\ running = "started"
  /\ page' = IF domain \in DOMAIN healthHistory
               THEN Some(generateHistoryPage(domain, healthHistory[domain], now))
               ELSE Some(NotFound(domain, now))
  /\ UNCHANGED <<config, healthState, healthHistory, disk, now, nextCheckTime,
                 timer, running, passes, slack, probes, budget, saved, loaded, warned>>

\* the paths a request can name beside /history/<domain>
Paths == {"/", "/api/status", "/favicon.ico"}

\* statusData of the handlers of / and /api/status: the next check time and
\* the fields of every EndpointState, for / the configuration too
StatusData(path) ==
  IF path = "/"
    THEN [code |-> 200, path |-> path,
          config |-> [domains |-> config.domains,
                      checkIntervalMinutes |-> config.checkIntervalMinutes,
                      slackConfigured |-> SlackConfigured(config)],
          nextCheckTime |-> nextCheckTime,
          status |-> healthState]
    ELSE [code |-> 200, path |-> path,
          nextCheckTime |-> nextCheckTime,
          status |-> healthState]

\* the handler as it would be with a request for the status moving the
\* next check time
StatusRequestRescheduling(path) ==
  /\ running = "started"
  /\ page' = IF path \in {"/", "/api/status"}
               THEN Some(StatusData(path))
               ELSE Some([code |-> 404, path |-> path])
  /\ nextCheckTime' = now + Interval(config)
  /\ UNCHANGED <<config, healthState, healthHistory, disk, now,
                 timer, running, passes, slack, probes, budget, saved, loaded, warned>>

\* the request handler of the server for / and /api/status, and for a path
\* it does not serve
StatusRequest(path) ==
  /\ running = "started"
  /\ page' = IF path \in {"/", "/api/status"}
               THEN Some(StatusData(path))
               ELSE Some([code |-> 404, path |-> path])
  /\ UNCHANGED <<config, healthState, healthHistory, disk, now, nextCheckTime,
                 timer, running, passes, slack, probes, budget, saved, loaded, warned>>

\* the domains a request can name: the configured ones and another one
Requested == Range(config.domains) \cup {<<"h", ":", "/", "z">>}

GridDelays == {10 * Second, Minute \div 2 - 1}

\* time passes and nothing happens
Advance(delay) ==
  /\ running = "started"
  /\ Elapse(delay)
  /\ UNCHANGED <<config, healthState, healthHistory, disk, nextCheckTime,
                 timer, running, passes, slack, probes, budget, page, saved, loaded, warned>>

-----------------------------------------------------------------------------
(* The exported functions of the store, called from outside the module *)

\* saveDomainHistory(domain, history)
SaveCall(domain, history, writable) ==
  /\ running = "loaded"
  /\ budget > 0
  /\ disk' = saveDomainHistory(disk, domain, history, writable)
  /\ warned' = Warned(domain, writable)
  /\ saved' = Some([domain |-> domain, history |-> history, written |-> writable,
                    call |-> budget])
  /\ budget' = budget - 1
  /\ UNCHANGED <<config, healthState, healthHistory, now, nextCheckTime, timer,
                 running, passes, slack, probes, page, loaded>>

\* loadDomainHistory(domain): what it returns, with the file it found
LoadCall(domain) ==
  /\ running = "loaded"
  /\ budget > 0
  /\ loaded' = Some([domain |-> domain,
                     value |-> loadDomainHistory(disk, domain, now),
                     at |-> now,
                     from |-> IF getDomainFileName(domain) \in DOMAIN disk
                                THEN Some(disk[getDomainFileName(domain)])
                                ELSE Null,
                     call |-> budget])
  /\ budget' = budget - 1
  /\ UNCHANGED <<config, healthState, healthHistory, disk, now, nextCheckTime,
                 timer, running, passes, slack, probes, page, saved, warned>>

\* time passes between two calls
Later(delay) ==
  /\ running = "loaded"
  /\ budget > 0
  /\ now' = now + delay
  /\ budget' = budget - 1
  /\ UNCHANGED <<config, healthState, healthHistory, disk, nextCheckTime, timer,
                 running, passes, slack, probes, page, saved, loaded, warned>>

-----------------------------------------------------------------------------
(* The specifications *)

Calls == DOMAIN passes

\* the program with its scheduler, two endpoints: passes may overlap
Next ==
  \/ Start
  \/ Tick
  \/ \E i \in Calls, response \in StreakResponses, delay \in StreakDelays :
       RequestDone(i, response, delay, TRUE)
  \/ \E i \in Calls, delay \in SinkDelays : SlackResolved(i, delay)
  \/ \E i \in Calls, delay \in SinkDelays, unhandled \in UnhandledRejections :
       SlackRejected(i, delay, TRUE, unhandled)

Spec == Init /\ [][Next]_vars

\* one endpoint, every probe outcome: status codes, bodies, transport errors
\* and response times around the threshold
NextProbe ==
  \/ Start
  \/ passes = <<>> /\ Tick
  \/ \E i \in Calls, response \in Responses, delay \in RequestDelays :
       RequestDone(i, response, delay, TRUE)
  \/ \E i \in Calls, delay \in SinkDelays : SlackResolved(i, delay)
  \/ \E i \in Calls, delay \in SinkDelays, unhandled \in UnhandledRejections :
       SlackRejected(i, delay, TRUE, unhandled)

SpecProbe == InitProbe /\ [][NextProbe]_vars

\* the same probes with userAgentEnabled set to true or to false
SpecUserAgent == InitUserAgent /\ [][NextProbe]_vars

\* one endpoint probed pass after pass, no pass starting before the last ended
NextStreak ==
  \/ Start
  \/ passes = <<>> /\ Tick
  \/ \E i \in Calls, response \in StreakResponses, delay \in StreakDelays :
       RequestDone(i, response, delay, TRUE)
  \/ \E i \in Calls, delay \in SinkDelays : SlackResolved(i, delay)
  \/ \E i \in Calls, delay \in SinkDelays, unhandled \in UnhandledRejections :
       SlackRejected(i, delay, TRUE, unhandled)

SpecStreak == InitStreak /\ [][NextStreak]_vars

\* a process started beside the file an earlier run has left, with or
\* without a webhook
InitRestart ==
  /\ \E webhook \in Webhooks : Loaded(Config(<<DomainA>>, webhook))
  /\ disk \in EarlierDisks
  /\ budget = MaxStoreRuns

SpecRestart == InitRestart /\ [][NextStreak]_vars

\* the program with two endpoints of any names
SpecShared == InitShared /\ [][Next]_vars

\* one endpoint, passes that may overlap: a call can stay suspended at the
\* sink while later passes probe the endpoint
SpecOverlap == InitOverlap /\ [][Next]_vars

\* the same passes, ended by a signal at any moment
NextShutdown ==
  \/ NextStreak
  \/ Shutdown

SpecShutdown == InitStreak /\ [][NextShutdown]_vars

\* the history pages of an endpoint whose history was loaded at the start
NextGrid ==
  \/ Start
  \/ \E domain \in Requested : HistoryRequest(domain)
  \/ \E delay \in GridDelays : Advance(delay)

SpecGrid == InitGrid /\ [][NextGrid]_vars

\* the monitor of one endpoint with the pages of the server requested
\* between the steps of its passes
InitRead ==
  /\ \E webhook \in Webhooks : Loaded(Config(<<DomainA>>, webhook))
  /\ disk = <<>>
  /\ budget = MaxReadRuns

NextRead ==
  \/ NextStreak
  \/ \E domain \in Requested : HistoryRequest(domain)
  \/ \E path \in Paths : StatusRequest(path)

SpecRead == InitRead /\ [][NextRead]_vars

\* the history pages of an endpoint probed once a minute, made at the start
\* and half a minute and a minute later
PerMinuteDelays == {Minute \div 2}

NextPerMinute ==
  \/ Start
  \/ HistoryRequest(DomainA)
  \/ \E delay \in PerMinuteDelays : Advance(delay)

SpecPerMinute == InitPerMinute /\ [][NextPerMinute]_vars

\* one endpoint whose history an earlier run has saved, passes that may
\* overlap, and a data directory that may refuse a write
StoreDelays == {1}

NextStore ==
  \/ Start
  \/ Tick
  \/ \E i \in Calls, response \in StreakResponses, delay \in StoreDelays,
        writable \in BOOLEAN :
       RequestDone(i, response, delay, writable)

SpecStore == InitStore /\ [][NextStore]_vars

\* saveDomainHistory called for one endpoint, then start() with its
\* loadAllPersistedData
NextLoad ==
  \/ /\ saved = Null
     /\ \E domain \in Range(config.domains), history \in EarlierHistories,
           writable \in BOOLEAN :
          SaveCall(domain, history, writable)
  \/ Start

SpecLoad == InitLoad /\ [][NextLoad]_vars

\* saveDomainHistory and loadDomainHistory called with any history: a caller
\* saves one history, saves it again, or saves the empty history over it
Savable == IF saved = Null THEN AnyHistories ELSE {saved[1].history, <<>>}

NextRoundTrip ==
  \/ \E history \in Savable, writable \in BOOLEAN :
       SaveCall(DomainA, history, writable)
  \/ LoadCall(DomainA)
  \/ \E delay \in StoreDelays : Later(delay)

SpecRoundTrip == InitRoundTrip /\ [][NextRoundTrip]_vars

-----------------------------------------------------------------------------
(* What a step emits *)

\* the messages of kind `kind` about `domain` handed to sendSlackNotification
\* in the step
Emitted(kind, domain) ==
  Cardinality({k \in (Len(slack) + 1)..Len(slack') :
                 slack'[k].kind = kind /\ slack'[k].domain = domain})

\* the messages of a kind sent so far
Sent(kind) == Len(SelectSeq(slack, LAMBDA m : m.kind = kind))

\* the step applies an Unhealthy / a Healthy update to the endpoint
FailureApplied(d) ==
  healthState'[d].consecutiveErrors = healthState[d].consecutiveErrors + 1

SuccessApplied(d) ==
  healthState'[d].consecutiveSuccesses = healthState[d].consecutiveSuccesses + 1

\* the number of entries of one status at the end of a history
RECURSIVE TrailingRun(_, _)
TrailingRun(history, status) ==
  IF history = <<>> \/ history[Len(history)].status # status
    THEN 0
    ELSE 1 + TrailingRun(SubSeq(history, 1, Len(history) - 1), status)

Endpoints == DOMAIN healthState

-----------------------------------------------------------------------------
(* C1: with the probes of an endpoint applied one after another, the update
   that makes consecutiveErrors 1 emits exactly one Alert, the update that
   makes it 5 emits exactly one Sustained, the 2nd, 3rd, 4th, 6th and later
   failure in a row emit nothing, no other step emits an Alert or a
   Sustained, and consecutiveErrors is the number of failures in a row (5
   after five of them). *)
C1_FailureNotifications ==
  /\ [][\A d \in Endpoints :
          LET n == healthState'[d].consecutiveErrors
          IN IF FailureApplied(d)
               THEN /\ Emitted("Alert", d) = (IF n = 1 THEN 1 ELSE 0)
                    /\ Emitted("Sustained", d) = (IF n = 5 THEN 1 ELSE 0)
                    /\ Emitted("Recovered", d) = 0
               ELSE Emitted("Alert", d) = 0 /\ Emitted("Sustained", d) = 0]_vars
  /\ [](\A d \in Endpoints :
          healthState[d].consecutiveErrors
            = TrailingRun(healthHistory[d], "unhealthy"))

\* six failures in a row have been applied: one Alert and one Sustained so far
C1_Witness ==
  /\ healthState[DomainA].consecutiveErrors = 6
  /\ Len(healthHistory[DomainA]) = 6
  /\ Sent("Alert") = 1
  /\ Sent("Sustained") = 1

(* C2: in a run of Healthy updates that follows an Unhealthy state, the
   update that makes consecutiveSuccesses 10 emits exactly one Recovered, the
   1st..9th and the 11th and later emit none, and no other step emits a
   Recovered. *)
C2_RecoveredOnTenth ==
  [][\A d \in Endpoints :
       LET wasUnhealthy == \E k \in DOMAIN healthHistory[d] :
                              healthHistory[d][k].status = "unhealthy"
       IN IF SuccessApplied(d)
            THEN wasUnhealthy =>
                   Emitted("Recovered", d) =
                     (IF healthState'[d].consecutiveSuccesses = 10 THEN 1 ELSE 0)
            ELSE Emitted("Recovered", d) = 0]_vars

\* a failure, then eleven successes: one Recovered so far
C2_Witness ==
  /\ healthState[DomainA].consecutiveSuccesses = 11
  /\ healthHistory[DomainA][1].status = "unhealthy"
  /\ Sent("Recovered") = 1

(* C3: consecutiveErrors and consecutiveSuccesses of an endpoint are never
   both nonzero, also after a notification failed. *)
C3_CountersExclusive ==
  \A d \in Endpoints :
    ~(healthState[d].consecutiveErrors > 0 /\ healthState[d].consecutiveSuccesses > 0)

\* the Recovered notification of the 10th success was rejected and the catch
\* block has run on the healthy endpoint
C3_Witness ==
  /\ healthState[DomainA].lastError = Some(<<"socket hang up">>)
  /\ healthState[DomainA].consecutiveErrors = 1
  /\ healthState[DomainA].consecutiveSuccesses = 0
  /\ Sent("Recovered") = 1

(* C4: a rejected notification never changes the state of an endpoint: the
   step in which sendSlackNotification rejects leaves every endpoint's
   status, lastError and counters, and every history, as they were. *)
C4_SinkFailureKeepsState ==
  [][(\E i \in Calls, delay \in SinkDelays, writable \in BOOLEAN,
         unhandled \in UnhandledRejections :
        SlackRejected(i, delay, writable, unhandled))
       => UNCHANGED <<healthState, healthHistory>>]_vars

(* C5: two pages made from the same history at times less than half a
   minute apart show the same grid, slot for slot. *)
C5_GridDeterminism ==
  [][(/\ page # Null /\ page' # Null
      /\ page[1].code = 200 /\ page'[1].code = 200
      /\ page'[1].history = page[1].history
      /\ page'[1].at - page[1].at < Minute \div 2
      /\ page[1].at - page'[1].at < Minute \div 2)
       => page'[1].grid = page[1].grid]_vars

(* C6: in a page made at time t, an entry of time t - 24 h is written to
   minute 0, an entry of time t to minute 1439, every entry, inside, before
   or after the window, to a minute of 0..1439, and no entry is dropped:
   the grid has 1440 minutes and the minute of every entry is not unknown. *)
C6_GridBounds ==
  page # Null /\ page[1].code = 200 =>
    LET p == page[1]
    IN /\ DOMAIN p.grid = 0..1439
       /\ DOMAIN p.minutes = DOMAIN p.history
       /\ \A k \in DOMAIN p.history :
            /\ p.minutes[k] \in 0..1439
            /\ p.grid[p.minutes[k]] # "unknown"
            /\ p.history[k].timestamp = p.at - 24 * 60 * 60 * Second
                 => p.minutes[k] = 0
            /\ p.history[k].timestamp = p.at => p.minutes[k] = 1439

\* a page made from an entry at the very start of its window and one at the
\* time the page is made
C6_Witness ==
  /\ page # Null
  /\ page[1].code = 200
  /\ Len(page[1].history) = 2
  /\ page[1].history[1].timestamp = page[1].at - 24 * 60 * 60 * Second
  /\ page[1].history[2].timestamp = page[1].at
  /\ page[1].minutes = <<0, 1439>>

(* C7: two checkDomain calls for the same endpoint are never in flight at
   once: no two runHealthChecks calls are inside checkDomain of one domain. *)
C7_OneProbePerEndpoint ==
  \A i, j \in Calls :
    i # j => DomainOf(passes[i]) # DomainOf(passes[j])

(* C8: every completed probe appends exactly one sample: the history of an
   endpoint has as many entries as probes of it have completed (histories
   start empty here and nothing is old enough to be trimmed). *)
C8_OneSamplePerProbe ==
  \A d \in Endpoints : Len(healthHistory[d]) = probes[d]

(* C9: a response with status 200..399, a response time not above the
   threshold and a body without the PHP marker leaves the endpoint healthy:
   status healthy, lastError null, consecutiveErrors 0, consecutiveSuccesses
   one more than before. *)
C9_HealthyClassification ==
  [][\A i \in Calls, response \in Responses, delay \in RequestDelays :
       LET responseTime == now + delay - passes[i].startTime
           d == DomainOf(passes[i])
       IN (/\ passes[i].pc = "request"
           /\ now' = now + delay
           /\ response.error = Null
           /\ response.statusCode \in 200..399
           /\ ToMs(responseTime) <= config.timeoutSeconds * 1000
           /\ \A k \in DOMAIN response.body :
                response.body[k] # "A PHP Error was encountered"
           /\ \E writable \in BOOLEAN : RequestDone(i, response, delay, writable))
          => /\ healthState'[d].status = "healthy"
             /\ healthState'[d].lastError = Null
             /\ healthState'[d].consecutiveErrors = 0
             /\ healthState'[d].consecutiveSuccesses
                  = healthState[d].consecutiveSuccesses + 1]_vars

\* a second success in a row whose response took exactly the threshold
C9_Witness ==
  /\ healthState[DomainA].status = "healthy"
  /\ healthState[DomainA].consecutiveSuccesses = 2
  /\ healthState[DomainA].responseTime = Some(10 * Second)

(* C10: the first matching rule gives the reason: a status below 200 or from
   400 gives 'HTTP <status>' whatever the response time and the body;
   otherwise a response time above the threshold gives 'Response time
   <t>ms exceeds <threshold>ms' whatever the body; otherwise a body with the
   PHP marker gives 'PHP Error detected in page content'. *)
C10_FirstRuleDecides ==
  [][\A i \in Calls, response \in Responses, delay \in RequestDelays :
       LET responseTime == now + delay - passes[i].startTime
           d == DomainOf(passes[i])
           code == response.statusCode
           slow == ToMs(responseTime) > config.timeoutSeconds * 1000
           marked == \E k \in DOMAIN response.body :
                       response.body[k] = "A PHP Error was encountered"
           reason ==
             IF code < 200 \/ code >= 400
               THEN Some(<<"HTTP ", ToString(code)>>)
             ELSE IF slow
               THEN Some(<<"Response time ", ToString(ToMs(responseTime)),
                           "ms exceeds ",
                           ToString(config.timeoutSeconds * 1000), "ms">>)
             ELSE Some(<<"PHP Error detected in page content">>)
       IN (/\ passes[i].pc = "request"
           /\ now' = now + delay
           /\ response.error = Null
           /\ (code < 200 \/ code >= 400 \/ slow \/ marked)
           /\ \E writable \in BOOLEAN : RequestDone(i, response, delay, writable))
          => /\ healthState'[d].status = "unhealthy"
             /\ healthState'[d].lastError = reason]_vars

\* a 404 that was also slow is reported as HTTP 404
C10_Witness ==
  /\ healthState[DomainA].lastError = Some(<<"HTTP ", "404">>)
  /\ healthState[DomainA].responseTime = Some(10 * Second + 1)

(* C11: a probe that fails in transport (connection error, request timeout)
   leaves the endpoint unhealthy with the message of the transport error as
   lastError and consecutiveErrors one more than before, and the checkDomain
   call that caught it returns: it is never ended by an exception. *)
C11_TransportFailureCaught ==
  /\ [][\A i \in Calls, response \in Responses, delay \in RequestDelays :
          LET d == DomainOf(passes[i])
          IN (/\ passes[i].pc = "request"
              /\ now' = now + delay
              /\ response.error # Null
              /\ RequestDone(i, response, delay, TRUE))
             => /\ healthState'[d].status = "unhealthy"
                /\ healthState'[d].lastError = response.error
                /\ healthState'[d].consecutiveErrors
                     = healthState[d].consecutiveErrors + 1]_vars
  /\ [][\A i \in Calls :
          (/\ passes[i].pc # "request"
           /\ \E response \in Responses : response.error = Some(passes[i].error))
          => ~ \E unhandled \in UnhandledRejections : Thrown(i, unhandled)]_vars

(* C12: after every addToHistory call, made at time now, every entry of the
   endpoint's history in memory has a timestamp of now - 30 days or later,
   and the file written by the call holds exactly that history. *)
C12_TrimmedOnAppend ==
  [][\A d \in Endpoints :
       probes'[d] # probes[d] =>
         LET history == healthHistory'[d]
             fileName == getDomainFileName(d)
         IN /\ \A k \in DOMAIN history :
                 history[k].timestamp >= now' - 30 * 24 * 60 * 60 * Second
            /\ disk' # disk =>
                 /\ disk'[fileName].kind = "array"
                 /\ Len(disk'[fileName].items) = Len(history)
                 /\ \A k \in DOMAIN history :
                      /\ disk'[fileName].items[k].timestamp = Some(history[k].timestamp)
                      /\ disk'[fileName].items[k].status = Some(history[k].status)]_vars

\* two loaded entries of exactly 30 days before the start were dropped by
\* the first append; the file, not written, still has them
C12_Witness ==
  /\ probes[DomainA] = 1
  /\ Len(healthHistory[DomainA]) = 1
  /\ healthHistory[DomainA][1].timestamp = now
  /\ getDomainFileName(DomainA) \in DOMAIN disk
  /\ Len(loadDomainHistory(disk, DomainA, 0)) = 2

Sorted(history) ==
  \A k \in 1..(Len(history) - 1) : history[k].timestamp <= history[k + 1].timestamp

(* C13: the entries of every history in memory are in non-decreasing
   timestamp order, and so are the entries loadDomainHistory returns from
   the endpoint's file, whatever appends, trims, saves and loads were made,
   also by passes that overlap. *)
C13_HistorySorted ==
  \A d \in Endpoints :
    /\ Sorted(healthHistory[d])
    /\ Sorted(loadDomainHistory(disk, d, now))

\* a loaded entry, then the append of the second pass, made while the first
\* pass is still waiting for its response
C13_Witness ==
  /\ \E i \in Calls : passes[i].startTime = 0 /\ passes[i].pc = "request"
  /\ Len(healthHistory[DomainA]) = 2
  /\ healthHistory[DomainA][1].timestamp < 0
  /\ healthHistory[DomainA][2].timestamp > 60 * Second
  /\ loadDomainHistory(disk, DomainA, now) = healthHistory[DomainA]

(* C14: when the data directory cannot be written, the append is kept in
   memory and nothing is thrown: the history ends with the new sample, the
   file is as it was, and checkDomain returns as it does after a write. *)
C14_UnwritableKeepsAppend ==
  [][\A i \in Calls, response \in StreakResponses, delay \in StoreDelays :
       LET d == DomainOf(passes[i])
           history == healthHistory'[d]
       IN (/\ passes[i].pc = "request"
           /\ now' = now + delay
           /\ RequestDone(i, response, delay, FALSE))
          => /\ Len(history) = Len(SelectSeq(healthHistory[d],
                                   LAMBDA e : e.timestamp >= now' - 30 * 24 * 60 * 60 * Second)) + 1
             /\ history[Len(history)] =
                  [timestamp |-> now', status |-> healthState'[d].status]
             /\ disk' = disk
             /\ running' = "started"
             /\ passes' = RemoveAt(passes, i)
             /\ nextCheckTime' = now' + 60 * Second]_vars

\* two probes were appended in memory and no file was ever written
C14_Witness ==
  /\ disk = <<>>
  /\ probes[DomainA] = 2
  /\ Len(healthHistory[DomainA]) = 2
  /\ healthHistory[DomainA][2].timestamp = now

(* C15: loadDomainHistory throws nothing and returns the empty history when
   the endpoint's file is missing, cannot be read, is not JSON, is not an
   array, is an array with a null in it (reading its timestamp throws), or
   is an array without an entry (every item lacks a timestamp or a
   status). *)
C15_LoadNeverThrows ==
  loaded # Null =>
    LET from == loaded[1].from
        NoEntry(item) ==
          item.type = "null" \/ item.timestamp = Null \/ item.status = Null
    IN (\/ from = Null
        \/ from[1].kind \in {"unreadable", "text", "value"}
        \/ \E k \in DOMAIN from[1].items : from[1].items[k].type = "null"
        \/ \A k \in DOMAIN from[1].items : NoEntry(from[1].items[k]))
       => loaded[1].value = <<>>

\* the load of an array with an entry and a null
C15_Witness ==
  /\ loaded # Null
  /\ loaded[1].from # Null
  /\ loaded[1].from[1].kind = "array"
  /\ Len(loaded[1].from[1].items) = 2
  /\ loaded[1].from[1].items[1].status = Some("healthy")
  /\ loaded[1].from[1].items[2].type = "null"
  /\ loaded[1].value = <<>>

(* C16: loadDomainHistory after a saveDomainHistory of the same endpoint that
   wrote its file returns the entries of the saved history whose timestamp
   is within the 30 days before the load, in their order and with their
   status, whatever the history. *)
C16_RoundTrip ==
  (/\ saved # Null /\ loaded # Null
   /\ saved[1].written
   /\ loaded[1].call < saved[1].call)
  => loaded[1].value =
       SelectSeq(saved[1].history,
                 LAMBDA e : e.timestamp >= loaded[1].at - 30 * 24 * 60 * 60 * Second)

\* a history saved with an entry just too old at the time of the load, after
\* an entry that is kept
C16_Witness ==
  /\ saved # Null /\ loaded # Null
  /\ saved[1].written
  /\ loaded[1].call < saved[1].call
  /\ Len(saved[1].history) = 2
  /\ saved[1].history[1].timestamp > saved[1].history[2].timestamp
  /\ saved[1].history[2].timestamp = loaded[1].at - 30 * 24 * 60 * 60 * Second - 1
  /\ loaded[1].value = <<saved[1].history[1]>>

(* C18: the status of an endpoint is unknown exactly until checkDomain has
   the outcome of its first probe; from then on it is healthy or unhealthy,
   never unknown again, and it is the classification of the most recent
   probe: it changes only in the step that classifies a probe, to healthy
   for a status of 200..399 answered within the threshold and to unhealthy
   otherwise (the pages probed here have no PHP marker). *)
C18_UnknownOnlyInitially ==
  /\ [](\A d \in Endpoints :
          /\ healthState[d].status \in {"unknown", "healthy", "unhealthy"}
          /\ healthState[d].status = "unknown" <=> probes[d] = 0)
  /\ [][\A d \in Endpoints :
          /\ healthState[d].status # "unknown" => healthState'[d].status # "unknown"
          /\ probes'[d] = probes[d] => healthState'[d].status = healthState[d].status
          /\ probes'[d] # probes[d] =>
               \E i \in Calls, response \in StreakResponses :
                 LET responseTime == now' - passes[i].startTime
                 IN /\ DomainOf(passes[i]) = d
                    /\ passes[i].pc = "request"
                    /\ healthState'[d].responseTime = Some(responseTime)
                    /\ healthState'[d].lastError # Null =>
                         healthState'[d].lastError[1][1] \in
                           (IF response.statusCode \in 200..399
                              THEN {"Response time "} ELSE {"HTTP "})
                    /\ healthState'[d].status =
                         (IF /\ response.statusCode \in 200..399
                             /\ ToMs(responseTime) <= config.timeoutSeconds * 1000
                            THEN "healthy" ELSE "unhealthy")]_vars

(* C19: every pass probes every configured endpoint and finishes, whatever
   the sink and the servers do: a runHealthChecks call stops being in flight
   only by returning from the checkDomain of the last endpoint and setting
   nextCheckTime; it is never abandoned before, and the process goes on. *)
C19_PassFinishes ==
  [][Len(passes') < Len(passes) =>
       /\ running' = "started"
       /\ \E i \in Calls :
            /\ passes[i].idx = Len(config.domains)
            /\ passes' = RemoveAt(passes, i)
            /\ nextCheckTime' = now' + config.checkIntervalMinutes * 60 * Second]_vars

(* C20: wherever a request handler can run (between two steps of the event
   loop, also while checkDomain is suspended at an await), the state and the
   history of an endpoint show the same probes: the status is unknown
   exactly when the history is empty, the last entry has the status of the
   state, the counters are the lengths of the runs of unhealthy and of
   healthy entries at the end of the history, and no step changes one of
   the two without the other. *)
C20_NoTornReads ==
  /\ [](\A d \in Endpoints :
          LET history == healthHistory[d]
              state == healthState[d]
          IN /\ state.status = "unknown" <=> history = <<>>
             /\ history # <<>> => history[Len(history)].status = state.status
             /\ state.consecutiveErrors = TrailingRun(history, "unhealthy")
             /\ state.consecutiveSuccesses = TrailingRun(history, "healthy"))
  /\ [][\A d \in Endpoints :
          healthState'[d] # healthState[d] <=> healthHistory'[d] # healthHistory[d]]_vars

\* a handler can run while checkDomain waits for the sink with the first
\* failure applied, and while the next pass probes the same endpoint
C20_Witness ==
  /\ Len(passes) = 2
  /\ passes[1].pc = "alert"
  /\ passes[2].idx = passes[1].idx
  /\ healthState[DomainOf(passes[1])].consecutiveErrors = 1
  /\ Len(healthHistory[DomainOf(passes[1])]) = 1

-----------------------------------------------------------------------------
(* The notifications a history calls for *)

\* the length of the run of entries of one status that ends at entry k
RunAt(history, k) ==
  LET breaks == {j \in 0..k : j = 0 \/ history[j].status # history[k].status}
  IN k - (CHOOSE j \in breaks : \A i \in breaks : i <= j)

\* the entries of a status that make their run n entries long
Reaching(history, status, n) ==
  Cardinality({k \in DOMAIN history :
                 history[k].status = status /\ RunAt(history, k) = n})

\* the messages of a kind about an endpoint handed to sendSlackNotification
SentAbout(kind, d) ==
  Len(SelectSeq(slack, LAMBDA m : m.kind = kind /\ m.domain = d))

(* C21: when the process is ended by a signal, with probes in flight or
   not, every endpoint is whole: its counters are the runs at the end of
   its history, its file holds its history, and the Alert, Sustained and
   Recovered messages handed to the sink are the ones its history calls
   for, so no probe has left an update without its append or without its
   notification. *)
C21_ShutdownLeavesWhole ==
  running = "stopped" =>
    \A d \in Endpoints :
      LET history == healthHistory[d]
          fileName == getDomainFileName(d)
      IN /\ healthState[d].consecutiveErrors = TrailingRun(history, "unhealthy")
         /\ healthState[d].consecutiveSuccesses = TrailingRun(history, "healthy")
         /\ IF history = <<>>
              THEN fileName \notin DOMAIN disk
              ELSE fileName \in DOMAIN disk /\ disk[fileName] = Stringify(history)
         /\ SentAbout("Alert", d) = Reaching(history, "unhealthy", 1)
         /\ SentAbout("Sustained", d) = Reaching(history, "unhealthy", 5)
         /\ SentAbout("Recovered", d) = Reaching(history, "healthy", 10)

\* the signal arrives while the fifth failure's Sustained message is on its
\* way to the sink
C21_Witness ==
  /\ running = "stopped"
  /\ \E i \in Calls : passes[i].pc = "sustained"
  /\ healthState[DomainA].consecutiveErrors = 5
  /\ SentAbout("Sustained", DomainA) = 1
  /\ Len(healthHistory[DomainA]) = 5

-----------------------------------------------------------------------------
(* The history page *)

\* a page with a grid is shown
Shown == page # Null /\ page[1].code = 200

\* the time the window of the shown page starts at
WindowStart == page[1].at - minutesInDay * Minute

\* the slots of the shown page that are not Unknown
Mapped == {m \in DOMAIN page[1].grid : page[1].grid[m] # "unknown"}

(* C22: the grid of a page has the slots 0..1439; a slot that no entry of
   the history is mapped to is Unknown, and a slot that entries are mapped to
   has the status of the last of them in the order of the history. *)
C22_LastWriteWins ==
  Shown =>
    LET p == page[1]
        written == {p.minutes[k] : k \in DOMAIN p.history}
        writers(m) == {k \in DOMAIN p.history : p.minutes[k] = m}
        last(m) == CHOOSE k \in writers(m) : \A j \in writers(m) : j <= k
    IN /\ DOMAIN p.grid = 0..(minutesInDay - 1)
       /\ \A m \in DOMAIN p.grid \ written : p.grid[m] = "unknown"
       /\ \A m \in written : p.grid[m] = p.history[last(m)].status

\* two entries of different status share a slot, other slots are Unknown
C22_Witness ==
  /\ Shown
  /\ \E j, k \in DOMAIN page[1].history :
       /\ j < k
       /\ page[1].minutes[j] = page[1].minutes[k]
       /\ page[1].history[j].status # page[1].history[k].status
  /\ Cardinality(Mapped) = 1

(* C23: when every entry of the history lies a whole number of minutes,
   0..1439, after the start of the window, each entry is mapped to the slot
   of that number, later entries to higher slots, and the slots that are not
   Unknown are exactly those numbers. *)
C23_WholeMinutesKeepOrder ==
  Shown =>
    LET p == page[1]
        offset(k) == p.history[k].timestamp - WindowStart
        whole == \A k \in DOMAIN p.history :
                   /\ offset(k) % Minute = 0
                   /\ offset(k) \div Minute \in 0..(minutesInDay - 1)
    IN whole =>
         /\ \A k \in DOMAIN p.history : p.minutes[k] = offset(k) \div Minute
         /\ \A j, k \in DOMAIN p.history :
              offset(j) < offset(k) => p.minutes[j] < p.minutes[k]
         /\ Mapped = {offset(k) \div Minute : k \in DOMAIN p.history}

\* samples at the minutes 0, 720 and 1439 of the window
C23_Witness ==
  /\ Shown
  /\ Len(page[1].history) = 3
  /\ \A k \in 1..3 :
       page[1].history[k].timestamp
         = WindowStart + <<0, 720, 1439>>[k] * Minute
  /\ Mapped = {0, 720, 1439}
  /\ page[1].minutes = <<0, 720, 1439>>

(* C24: for a history of n entries taken at now - i minutes + 59.5 s,
   i = 1..n, the page made at now shows n slots that are not Unknown. *)
C24_OneSlotPerEntry ==
  Shown =>
    LET p == page[1]
        n == Len(p.history)
    IN (/\ n >= 1
        /\ \A k \in 1..n :
             p.history[k].timestamp
               = p.at - (n + 1 - k) * Minute + 59 * Second + Second \div 2)
         => Cardinality(Mapped) = n

\* the slots of the shown page whose last entry, in the order of the
\* history, has the status
SlotsShowing(status) ==
  LET p == page[1]
      last(k) == \A j \in DOMAIN p.history : j > k => p.minutes[j] # p.minutes[k]
  IN Cardinality({p.minutes[k] :
                    k \in {i \in DOMAIN p.history :
                             last(i) /\ p.history[i].status = status}})

(* C25 as stated: the uptime shown is exactly 100 * Healthy slots / 1440,
   Minutes Down is the number of Unhealthy slots, and the Healthy, Unhealthy
   and Unknown slots are 1440 together. *)
C25_StatsFromGrid ==
  Shown =>
    LET p == page[1]
    IN /\ Uptime(p.grid) * minutesInDay = 100 * SlotsShowing("healthy")
       /\ MinutesDown(p.grid) = SlotsShowing("unhealthy")
       /\ SlotsShowing("healthy") + SlotsShowing("unhealthy")
            + Slots(p.grid, "unknown") = minutesInDay

(* C25 amended: the uptime shown is the whole number nearest to
   100 * Healthy slots / 1440 (a half counts up), Minutes Down is the number
   of Unhealthy slots, and the Healthy, Unhealthy and Unknown slots are 1440
   together. *)
C25_StatsFromGridRounded ==
  Shown =>
    LET p == page[1]
        exact == 100 * SlotsShowing("healthy")
        uptime == Uptime(p.grid)
    IN /\ 2 * (uptime * minutesInDay - exact) <= minutesInDay
       /\ 2 * (exact - uptime * minutesInDay) < minutesInDay
       /\ MinutesDown(p.grid) = SlotsShowing("unhealthy")
       /\ SlotsShowing("healthy") + SlotsShowing("unhealthy")
            + Slots(p.grid, "unknown") = minutesInDay

\* eight Healthy slots of 1440 are 0.56 percent: the page shows 1
C25_Witness ==
  /\ Shown
  /\ Slots(page[1].grid, "healthy") = 8
  /\ Uptime(page[1].grid) = 1
  /\ MinutesDown(page[1].grid) = 0

(* C26: Total Checks is the number of entries of the history taken in the
   24 hours before the page was made, and Last Check is the timestamp of the
   latest entry. *)
C26_StatsOfWindow ==
  Shown =>
    LET p == page[1]
        inWindow == {k \in DOMAIN p.history : p.history[k].timestamp >= WindowStart}
    IN /\ TotalChecks(p.history) = Cardinality(inWindow)
       /\ LastCheck(p.history) =
            IF p.history = <<>>
              THEN Null
              ELSE Some(CHOOSE t \in {p.history[k].timestamp : k \in DOMAIN p.history} :
                          \A k \in DOMAIN p.history : p.history[k].timestamp <= t)

-----------------------------------------------------------------------------
(* C27: while the program runs, the nextCheckTime the status API returns is
   the time of the next tick of the interval timer, also while a pass is
   running and after a pass has ended. *)
C27_NextCheckIsNextTick ==
  running = "started" => nextCheckTime = timer[1]

(* C28: loadAllPersistedData gives every configured endpoint the entries of
   the last 30 days of the record saved for it, and nothing to an endpoint
   no record was saved for: no endpoint receives another endpoint's
   record. *)
C28_LoadedOwnRecords ==
  [][(running = "loaded" /\ running' = "started") =>
       \A d \in Range(config.domains) :
         healthHistory'[d] =
           IF saved # Null /\ saved[1].written /\ saved[1].domain = d
             THEN SelectSeq(saved[1].history,
                            LAMBDA entry : entry.timestamp >= now - RetentionWindow)
             ELSE <<>>]_vars

(* C29: an append whose save succeeds leaves a durable record that loads as
   the complete history in memory: every entry the memory held before the
   append and that is still retained is in it, those whose own save had
   failed included. *)
C29_SaveCatchesUp ==
  [][\A d \in Endpoints :
       (probes'[d] # probes[d] /\ disk' # disk) =>
         LET durable == loadDomainHistory(disk', d, now')
         IN /\ durable = healthHistory'[d]
            /\ \A k \in DOMAIN healthHistory[d] :
                 healthHistory[d][k].timestamp >= now' - RetentionWindow
                   => healthHistory[d][k] \in Range(durable)]_vars

\* a save has failed, a later one succeeded: the file has both samples
C29_Witness ==
  /\ DomainA \in warned
  /\ probes[DomainA] = 2
  /\ Len(healthHistory[DomainA]) >= 2
  /\ getDomainFileName(DomainA) \in DOMAIN disk
  /\ disk[getDomainFileName(DomainA)] = Stringify(healthHistory[DomainA])

(* C30: a request of makeHttpRequest carries the header User-Agent:
   HealthcheckBot when config.userAgentEnabled is true and no User-Agent
   header when it is false. *)
C30_UserAgentSetting ==
  \A i \in Calls :
    passes[i].pc = "request" =>
      passes[i].headers = IF config.userAgentEnabled
                            THEN {<<"User-Agent", "HealthcheckBot">>}
                            ELSE {}

(* C31: also with passes that overlap and a sink that answers late, an
   endpoint has been sent at most one Alert for every streak of failures in
   its history and at most one Sustained for every streak that reached five
   failures. *)
C31_OncePerStreak ==
  \A d \in Endpoints :
    /\ SentAbout("Alert", d) <= Reaching(healthHistory[d], "unhealthy", 1)
    /\ SentAbout("Sustained", d) <= Reaching(healthHistory[d], "unhealthy", 5)

(* C32 as stated: every Recovered message about an endpoint comes after an
   Alert message about it, with no other Recovered about it in between. *)
C32_RecoveredAfterAlert ==
  \A k \in DOMAIN slack :
    slack[k].kind = "Recovered" =>
      \E j \in 1..(k - 1) :
        /\ slack[j].kind = "Alert"
        /\ slack[j].domain = slack[k].domain
        /\ \A i \in (j + 1)..(k - 1) :
             ~(slack[i].kind = "Recovered" /\ slack[i].domain = slack[k].domain)

(* C32 amended: an endpoint has been sent one Recovered message for every
   streak of successes in its history that reached ten, the streak its
   history starts with included, whether or not an Alert came before. *)
C32_RecoveredPerTenSuccesses ==
  \A d \in Endpoints :
    SentAbout("Recovered", d) = Reaching(healthHistory[d], "healthy", 10)

\* the first ten probes after the start all succeed: a Recovered message and
\* no Alert
C32_Witness ==
  /\ Len(healthHistory[DomainA]) = 10
  /\ \A k \in 1..10 : healthHistory[DomainA][k].status = "healthy"
  /\ SentAbout("Recovered", DomainA) = 1
  /\ SentAbout("Alert", DomainA) = 0

(* C33: the endpoints have file names of their own: a step that appends a
   sample for one endpoint and saves its history leaves the file of every
   other endpoint as it was. *)
C33_OwnFile ==
  [][\A d, e \in Endpoints :
       (d # e /\ probes'[d] # probes[d]) =>
         LET fileName == getDomainFileName(e)
         IN /\ getDomainFileName(d) # fileName
            /\ (fileName \in DOMAIN disk') = (fileName \in DOMAIN disk)
            /\ fileName \in DOMAIN disk => disk'[fileName] = disk[fileName]]_vars

(* C34: in every state the status of an endpoint agrees with its counters:
   healthy exactly when consecutiveSuccesses >= 1, unhealthy exactly when
   consecutiveErrors >= 1, unknown exactly when both are 0 and lastCheck is
   null; and every change of the state is the update of one more probe,
   which adds 1 to one counter and sets the other to 0. *)
C34_StatusAgreesWithCounters ==
  /\ [](\A d \in Endpoints :
         LET state == healthState[d]
         IN /\ (state.status = "healthy") = (state.consecutiveSuccesses >= 1)
            /\ (state.status = "unhealthy") = (state.consecutiveErrors >= 1)
            /\ (state.status = "unknown")
                 = (/\ state.consecutiveSuccesses = 0
                    /\ state.consecutiveErrors = 0
                    /\ state.lastCheck = Null))
  /\ [][\A d \in Endpoints :
          healthState'[d] # healthState[d] =>
            /\ probes'[d] = probes[d] + 1
            /\ \/ /\ SuccessApplied(d)
                  /\ healthState'[d].consecutiveErrors = 0
               \/ /\ FailureApplied(d)
                  /\ healthState'[d].consecutiveSuccesses = 0]_vars

\* the entries of the shown page's history whose rounded minute, before the
\* clamp, is 0 or less
AtOrBeforeWindowStart ==
  {k \in DOMAIN page[1].history :
     RoundDiv(page[1].history[k].timestamp - WindowStart, Minute) <= 0}

(* C35: slot 0 of the grid has the status of the last entry, in the order
   of the history, whose rounded minute is 0 or less, entries older than the
   window included; it is Unknown only when there is no such entry. *)
C35_OldEntriesInSlotZero ==
  Shown =>
    LET p == page[1]
        old == AtOrBeforeWindowStart
        last == CHOOSE k \in old : \A j \in old : j <= k
    IN IF old = {}
         THEN p.grid[0] = "unknown"
         ELSE p.grid[0] = p.history[last].status

\* two entries older than the window, of different status: slot 0 shows the
\* later one
C35_Witness ==
  /\ Shown
  /\ Len(page[1].history) = 2
  /\ AtOrBeforeWindowStart = {1, 2}
  /\ page[1].history[2].timestamp < WindowStart
  /\ page[1].history[1].status # page[1].history[2].status
  /\ page[1].grid[0] = page[1].history[2].status
  /\ Mapped = {0}

(* C36: the state a probe leaves is that of its classification: lastError
   is null exactly when the probe was classified healthy and is the failure
   reason otherwise, lastCheck and responseTime are those of the probe; and
   until the next probe of the endpoint is classified nothing else changes
   that state. *)
C36_LastErrorTellsOutcome ==
  [][/\ \A i \in Calls, response \in Responses \cup StreakResponses,
          delay \in RequestDelays \cup StreakDelays :
          LET responseTime == now + delay - passes[i].startTime
              d == DomainOf(passes[i])
              thrown == Classify(response, responseTime, config)
          IN (/\ passes[i].pc = "request"
              /\ now' = now + delay
              /\ \E writable \in BOOLEAN : RequestDone(i, response, delay, writable))
             => /\ healthState'[d].lastError = thrown
                /\ (healthState'[d].lastError = Null)
                     = (healthState'[d].status = "healthy")
                /\ healthState'[d].lastCheck = Some(now')
                /\ healthState'[d].responseTime = Some(responseTime)
     /\ \A d \in Endpoints :
          probes'[d] = probes[d] => healthState'[d] = healthState[d]]_vars

\* no entry stamped since the start of this process is unhealthy
NoFailureSinceStart(d) ==
  \A k \in DOMAIN healthHistory[d] :
    healthHistory[d][k].timestamp >= 0 => healthHistory[d][k].status = "healthy"

(* C37: start() leaves every endpoint Unknown with both counters 0 whatever
   history it has loaded, and hands nothing but the start-up message to the
   notifier; and the first probe of an endpoint that fails after the start
   hands an Alert about it to the notifier, whatever its loaded history
   ends with. *)
C37_StreakNotRestored ==
  [][/\ (running = "loaded" /\ running' = "started") =>
          /\ \A d \in Endpoints : healthState'[d] = InitialState
          /\ \A k \in DOMAIN slack' : slack'[k].kind = "Startup"
     /\ \A d \in Endpoints :
          (/\ probes'[d] = probes[d] + 1
           /\ FailureApplied(d)
           /\ NoFailureSinceStart(d))
            => Emitted("Alert", d) = 1]_vars

\* the loaded history ended unhealthy, the first probe after the start has
\* failed too and its Alert went to the configured webhook
C37_Witness ==
  /\ SlackConfigured(config)
  /\ probes[DomainA] = 1
  /\ Len(healthHistory[DomainA]) = 3
  /\ \A k \in 1..3 : healthHistory[DomainA][k].status = "unhealthy"
  /\ healthHistory[DomainA][2].timestamp < 0
  /\ healthState[DomainA].consecutiveErrors = 1
  /\ SentAbout("Alert", DomainA) = 1

(* C38: a request to the server for /, /api/status, /history/<endpoint> or
   any other path leaves every EndpointState, every history in memory, every
   durable record and the next check time as they were, and hands no message
   to the notifier. *)
C38_ReadsChangeNothing ==
  [][page' # page =>
       UNCHANGED <<healthState, healthHistory, disk, nextCheckTime, slack>>]_vars

\* the status was served after a failed probe and its Alert, with the state
\* and the next check time it shows still those of the monitor
C38_Witness ==
  /\ page # Null
  /\ page[1].code = 200
  /\ "status" \in DOMAIN page[1]
  /\ page[1].status = healthState
  /\ page[1].status[DomainA].status = "unhealthy"
  /\ page[1].nextCheckTime = nextCheckTime
  /\ nextCheckTime # now + Interval(config)
  /\ Len(healthHistory[DomainA]) = 1
  /\ getDomainFileName(DomainA) \in DOMAIN disk
  /\ SentAbout("Alert", DomainA) = 1

=============================================================================
